---- MODULE Spec2Model ----
(***************************************************************************)
(* Model of the authentication / session core of quillist-api:            *)
(* src/src/auth/{utils,dependencies,routes,service}.py, src/src/db/redis.py*)
(* the status table of src/src/errors.py, and the review routes of        *)
(* src/src/reviews/{routes,service}.py.                                    *)
(*                                                                         *)
(* Time is counted in seconds.  `now` is the UTC instant; the code reads   *)
(* the naive local wall clock (datetime.now()), which is now + tz.         *)
(***************************************************************************)
EXTENDS Integers, Sequences, FiniteSets, Bags, TLC

VARIABLES users, blocklist, issued, loggedOut, outbox, reviews, tags, codec, procs, now, tz, nextJti, nextUid, ticks, last

vars == <<users, blocklist, issued, loggedOut, outbox, reviews, tags, codec, procs, now, tz, nextJti, nextUid, ticks, last>>

(***************************************************************************)
(* Bounds of the model                                                     *)
(***************************************************************************)
MaxUsers == 2
MaxJti == 3
MaxTicks == 1
MaxMail == 1
MaxReviews == 2
MaxTags == 2
MaxProcs == 2

(***************************************************************************)
(* Program constants                                                       *)
(***************************************************************************)
ACCESS_TOKEN_EXPIRY == 3600
JTI_EXPIRY == 3600
REFRESH_TOKEN_EXPIRE_DAYS == 2
SecondsPerDay == 86400
HTTP_200_OK == 200
HTTP_201_CREATED == 201
HTTP_204_NO_CONTENT == 204
HTTP_400_BAD_REQUEST == 400
HTTP_401_UNAUTHORIZED == 401
HTTP_403_FORBIDDEN == 403
HTTP_404_NOT_FOUND == 404
HTTP_409_CONFLICT == 409
HTTP_500_INTERNAL_SERVER_ERROR == 500

(***************************************************************************)
(* Input domains                                                           *)
(***************************************************************************)
Emails == {"a@x.com", "b@x.com"}
Passwords == {"secret1", "secret2"}
Salts == {0}
TzOffsets == {0, 3600}
TickSteps == {3600}
Delays == {0, 3600}
None == "None"

\* The two RoleChecker instances of the routers: ["admin", "user"] and ["admin"].
RoleCheckers == {{"admin", "user"}, {"admin"}}

(***************************************************************************)
(* Credential hasher (passlib bcrypt): a salted hash; verify re-derives    *)
(* the hash from the password and the salt stored in the hash string.      *)
(***************************************************************************)
generate_password_hash(password, salt) == [alg |-> "bcrypt", salt |-> salt, digest |-> <<salt, password>>]

\* variant: only the presence of a digest is checked
verify_password_any(password, hash) == hash.digest = <<hash.salt, hash.digest[2]>>

verify_password(password, hash) == hash.digest = <<hash.salt, password>>

(***************************************************************************)
(* Tokens.  Every string a client can present is one record shape:        *)
(* fmt "jwt" (PyJWT), fmt "opaque" (itsdangerous URLSafeTimedSerializer),  *)
(* fmt "garbage" (anything else).  sig names the key material that signed. *)
(***************************************************************************)
NoUserData == [email |-> "-", user_uid |-> 0 - 1, role |-> "-"]

NoToken == [fmt |-> "none", user |-> NoUserData, exp |-> 0, jti |-> 0, refresh |-> FALSE, sig |-> "-", email |-> "-", iat |-> 0]

Garbage == [NoToken EXCEPT !.fmt = "garbage"]

JwtSig == "HS:JWT_SECRET"
SerializerSig == "itsdangerous:JWT_SECRET:email-configuration"
ForgedSig == "forged"

\* jwt.encode of the payload built by create_access_token.  The naive local
\* datetime is converted by PyJWT with timegm(exp.utctimetuple()), i.e. the
\* local wall-clock reading is taken as if it were UTC.
create_access_token(user_data, expiry, refresh, localNow, jti) ==
    [NoToken EXCEPT !.fmt = "jwt", !.user = user_data, !.exp = localNow + expiry,
                    !.jti = jti, !.refresh = refresh, !.sig = JwtSig]

\* variant: anything signed with the server secret is taken as a JWT
decode_token_by_secret(token, t) ==
    IF token.sig \in {JwtSig, SerializerSig} /\ (token.fmt = "jwt" => token.exp > t) THEN token ELSE NoToken

\* variant: the exp claim is not verified
decode_token_no_expiry(token, t) ==
    IF token.fmt = "jwt" /\ token.sig = JwtSig THEN token ELSE NoToken

\* jwt.decode at UTC instant t: signature and exp are verified; any
\* PyJWTError gives None (NoToken).
decode_token(token, t) ==
    IF token.fmt = "jwt" /\ token.sig = JwtSig /\ token.exp > t THEN token ELSE NoToken

\* serializer.dumps({"email": email}) at instant t.
create_urlsafe_token(email, t) ==
    [NoToken EXCEPT !.fmt = "opaque", !.email = email, !.iat = t, !.sig = SerializerSig]

\* serializer.loads(token) without max_age; any exception gives None.
decode_urlsafe_token(token) ==
    IF token.fmt = "opaque" /\ token.sig = SerializerSig THEN token ELSE NoToken

(***************************************************************************)
(* Revocation store (Redis): SETEX name ttl / EXISTS name.                 *)
(***************************************************************************)
\* variant: the logout also revokes the refresh token issued with the
\* access token (the next jti)
add_jti_to_blocklist_pair(bl, jti, t) ==
    {e \in bl : e.jti \notin {jti, jti + 1}} \cup {[jti |-> j, expire_at |-> t + JTI_EXPIRY] : j \in {jti, jti + 1}}

add_jti_to_blocklist(bl, jti, t) ==
    {e \in bl : e.jti # jti} \cup {[jti |-> jti, expire_at |-> t + JTI_EXPIRY]}

\* variant: the existence check looks up a fixed key instead of the jti
token_in_blocklist_wrong_key(bl, jti) == \E e \in bl : e.jti = 0

token_in_blocklist(bl, jti) == \E e \in bl : e.jti = jti

\* Redis drops a key once its TTL has run out.
ExpireKeys(bl, t) == {e \in bl : t < e.expire_at}

(***************************************************************************)
(* User store                                                              *)
(***************************************************************************)
NoUser == [uid |-> 0 - 1, email |-> "-", password_hash |-> generate_password_hash("-", 0), is_verified |-> FALSE, role |-> "-"]

\* rows select(User).where(User.email == email) returns
UsersByEmail(us, email) == {u \in us : u.email = email}

\* variant: the existence check never finds a user
user_exists_never(us, email) == UsersByEmail(us, email) # UsersByEmail(us, email)

user_exists(us, email) == UsersByEmail(us, email) # {}

\* variant: the new row is stored as already verified
create_user_verified(email, password, salt, uid) ==
    [uid |-> uid, email |-> email, password_hash |-> generate_password_hash(password, salt),
     is_verified |-> TRUE, role |-> "user"]

create_user(email, password, salt, uid) ==
    [uid |-> uid, email |-> email, password_hash |-> generate_password_hash(password, salt),
     is_verified |-> FALSE, role |-> "user"]

\* variant: the flag is flipped instead of set
update_user_is_verified_flip(us, user) == (us \ {user}) \cup {[user EXCEPT !.is_verified = ~user.is_verified]}

update_user_is_verified(us, user) == (us \ {user}) \cup {[user EXCEPT !.is_verified = TRUE]}

\* variant: the row is deleted instead of rewritten
update_user_password_hash_deleted(us, user, hash) == us \ {user}

\* variant: the new hash is set on the object but never committed
update_user_password_hash_unsaved(us, user, hash) == (us \ {user}) \cup {[user EXCEPT !.password_hash = user.password_hash]}

update_user_password_hash(us, user, hash) == (us \ {user}) \cup {[user EXCEPT !.password_hash = hash]}

(***************************************************************************)
(* Exception handlers (src/src/errors.py): status of a raised exception.   *)
(***************************************************************************)
StatusOfRaised(exc) ==
    CASE exc \in {"InvalidToken", "RevokeToken", "AccessTokenRequired", "RefreshTokenRequired", "InvalidCredentials"} -> HTTP_401_UNAUTHORIZED
      [] exc \in {"InvalidVerificationToken", "ResetPasswordsDoNotMatch"} -> HTTP_400_BAD_REQUEST
      [] exc \in {"UserNotFound", "ReviewNotFound", "TagNotFound"} -> HTTP_404_NOT_FOUND
      [] exc \in {"UserAlreadyExists", "TagAlreadyExists"} -> HTTP_409_CONFLICT
      [] exc \in {"InsufficientPermission", "AccountNotVerified"} -> HTTP_403_FORBIDDEN
      [] OTHER -> HTTP_500_INTERNAL_SERVER_ERROR

\* What the client receives: a raised exception goes through its handler;
\* a returned value (a JSONResponse, a dict, or an exception object that
\* was returned and not raised) is sent with the route's own status code.
Deliver(raised, routeStatus) == IF raised # None THEN StatusOfRaised(raised) ELSE routeStatus

(***************************************************************************)
(* The request being answered: what the client sent (req), the exception   *)
(* the handler raised (None when it returned), the kind of value it        *)
(* returned, and the HTTP status the client receives.  Requests are served *)
(* one at a time: a handler runs when no response is pending, and Respond  *)
(* hands the pending response to the client.                               *)
(***************************************************************************)
Request(op, email, password, token, allowed_roles) ==
    [op |-> op, email |-> email, password |-> password, confirm |-> "-", token |-> token, allowed_roles |-> allowed_roles]

Outcome(req, raised, returned, routeStatus) ==
    [req |-> req, raised |-> raised, returned |-> returned, status |-> Deliver(raised, routeStatus)]

Raise(req, exc, routeStatus) == Outcome(req, exc, None, routeStatus)

Return(req, value, routeStatus) == Outcome(req, None, value, routeStatus)

Idle == Outcome(Request("idle", "-", "-", NoToken, {}), None, None, 0)

\* the clock (and the TTLs of the revocation store) after dl seconds
Elapse(dl, bl) ==
    /\ ticks + (dl \div 3600) <= MaxTicks
    /\ now' = now + dl
    /\ ticks' = ticks + (dl \div 3600)
    /\ blocklist' = ExpireKeys(bl, now + dl)

(***************************************************************************)
(* Initial state: an empty deployment, or one whose database was seeded    *)
(* with an administrator (the API itself only ever creates role "user").   *)
(***************************************************************************)
\* Requests served concurrently: each worker handles one request, one
\* await of its handler at a time.
Procs == 1..MaxProcs

IdleProc == [pc |-> "idle", op |-> "-", email |-> "-", password |-> "-", token |-> NoToken, token_data |-> NoToken,
             result |-> None, after_logout |-> FALSE]

\* the token codec used on its own: the arguments of the last
\* create_access_token call, the token it returned, and the instant and
\* result of the last decode_token call on that token
NoCodec == [user_data |-> NoUserData, refresh |-> FALSE, jti |-> 0, token |-> NoToken,
            decoded |-> FALSE, at |-> 0, token_data |-> NoToken]

SeedAdmin == [uid |-> 0, email |-> "b@x.com", password_hash |-> generate_password_hash("secret2", 0), is_verified |-> FALSE, role |-> "admin"]

Init ==
    /\ users = {SeedAdmin}
    /\ blocklist = {}
    /\ issued = {}
    /\ loggedOut = {}
    /\ outbox = EmptyBag
    /\ reviews = {}
    /\ tags = {}
    /\ codec = NoCodec
    /\ procs = [p \in Procs |-> IdleProc]
    /\ now = 0
    /\ tz \in TzOffsets
    /\ nextJti = 1
    /\ nextUid = 1
    /\ ticks = 0
    /\ last = Idle

(***************************************************************************)
(* Passage of time                                                         *)
(***************************************************************************)
Tick ==
    /\ last = Idle
    /\ \E d \in TickSteps : Elapse(d, blocklist)
    /\ UNCHANGED <<users, issued, loggedOut, outbox, tz, nextJti, nextUid, last, reviews, codec, tags, procs>>

(***************************************************************************)
(* What a client can put in a request                                      *)
(***************************************************************************)
MailedTokens == {m.token : m \in BagToSet(outbox)}

\* a copy of an issued token with the refresh flag flipped, re-signed
\* without the server secret
Tampered(t) == [t EXCEPT !.refresh = ~t.refresh, !.sig = ForgedSig]

\* a mailed token re-signed without the server secret
Forged(t) == [t EXCEPT !.sig = ForgedSig]

\* Authorization: Bearer <...> of a request to a token-protected route
BearerInputs == issued \cup {Tampered(t) : t \in issued} \cup MailedTokens \cup {Garbage}

\* the {token} path parameter of /verify and /password-reset-confirm
PathTokenInputs == MailedTokens \cup {Forged(t) : t \in MailedTokens} \cup issued \cup {Garbage}

(***************************************************************************)
(* Bearer authenticator (src/src/auth/dependencies.py)                     *)
(***************************************************************************)
AuthResult(raised, token_data) == [raised |-> raised, token_data |-> token_data]

\* variant: the two bearer classes have their checks exchanged
verify_token_data_swapped(kind, token_data) ==
    CASE kind = "access" /\ ~token_data.refresh -> "RefreshTokenRequired"
      [] kind = "refresh" /\ token_data.refresh -> "AccessTokenRequired"
      [] OTHER -> None

verify_token_data(kind, token_data) ==
    CASE kind = "access" /\ token_data.refresh -> "AccessTokenRequired"
      [] kind = "refresh" /\ ~token_data.refresh -> "RefreshTokenRequired"
      [] OTHER -> None

\* variant: a blocklisted token is answered with the RevokeToken error
TokenBearer_revoke_error(kind, token, t1, t2, bl) ==
    IF decode_token(token, t1) = NoToken
    THEN AuthResult("InvalidToken", NoToken)
    ELSE LET token_data == decode_token(token, t2) IN
         IF token_data = NoToken
         THEN AuthResult("TypeError", NoToken)
         ELSE IF token_in_blocklist(bl, token_data.jti)
              THEN AuthResult("RevokeToken", NoToken)
              ELSE AuthResult(verify_token_data(kind, token_data), token_data)

\* TokenBearer.__call__: token_valid decodes at t1, the handler decodes
\* again at t2 and subscripts the result; bl is the revocation store at t2.
TokenBearer(kind, token, t1, t2, bl) ==
    IF decode_token(token, t1) = NoToken
    THEN AuthResult("InvalidToken", NoToken)
    ELSE LET token_data == decode_token(token, t2) IN
         IF token_data = NoToken
         THEN AuthResult("TypeError", NoToken)
         ELSE IF token_in_blocklist(bl, token_data.jti)
              THEN AuthResult("InvalidToken", NoToken)
              ELSE AuthResult(verify_token_data(kind, token_data), token_data)

\* variant: role membership is tested before the verification flag
RoleChecker_role_first(allowed_roles, current_user) ==
    IF current_user = NoUser THEN "AttributeError"
    ELSE IF current_user.role \notin allowed_roles THEN "InsufficientPermission"
    ELSE IF ~current_user.is_verified THEN "AccountNotVerified"
    ELSE None

\* RoleChecker.__call__ on the record get_current_user resolved
RoleChecker(allowed_roles, current_user) ==
    IF current_user = NoUser THEN "AttributeError"
    ELSE IF ~current_user.is_verified THEN "AccountNotVerified"
    ELSE IF current_user.role \in allowed_roles THEN None
    ELSE "InsufficientPermission"

(***************************************************************************)
(* POST /signup  (create_user_account)                                     *)
(***************************************************************************)
Mail(recipient, subject, token) == [recipients |-> {recipient}, subject |-> subject, token |-> token]

create_user_account(email, password, salt) ==
    LET req == Request("signup", email, password, NoToken, {}) IN
    /\ last = Idle
    /\ IF user_exists(users, email)
       THEN /\ last' = Raise(req, "UserAlreadyExists", HTTP_201_CREATED)
            /\ UNCHANGED <<users, outbox, nextUid>>
       ELSE /\ Cardinality(users) < MaxUsers
            /\ BagCardinality(outbox) < MaxMail
            /\ users' = users \cup {create_user(email, password, salt, nextUid)}
            /\ outbox' = outbox (+) SetToBag({Mail(email, "verify", create_urlsafe_token(email, now))})
            /\ last' = Return(req, "dict", HTTP_201_CREATED)
            /\ nextUid' = nextUid + 1
    /\ UNCHANGED <<blocklist, issued, loggedOut, now, tz, nextJti, ticks, reviews, codec, tags, procs>>

Signup == \E email \in Emails, password \in Passwords, salt \in Salts : create_user_account(email, password, salt)

(***************************************************************************)
(* GET /verify/{token}  (verify_user_account)                              *)
(***************************************************************************)
\* variant: a token that was mailed for a password reset is refused
verify_user_account_own_tokens(token) ==
    LET decoded_token == decode_urlsafe_token(token)
        req == Request("verify", "-", "-", token, {})
    IN
    /\ last = Idle
    /\ IF decoded_token = NoToken
       THEN /\ last' = Raise(req, "AttributeError", HTTP_200_OK)
            /\ UNCHANGED users
       ELSE IF decoded_token.email = "" \/ \E m \in BagToSet(outbox) : m.token = token /\ m.subject = "reset"
       THEN /\ last' = Return(req, "InvalidVerificationToken", HTTP_200_OK)
            /\ UNCHANGED users
       ELSE IF UsersByEmail(users, decoded_token.email) = {}
       THEN /\ last' = Return(req, "UserNotFound", HTTP_200_OK)
            /\ UNCHANGED users
       ELSE \E user \in UsersByEmail(users, decoded_token.email) :
            /\ users' = update_user_is_verified(users, user)
            /\ last' = Return(req, "JSONResponse", HTTP_200_OK)
    /\ UNCHANGED <<blocklist, issued, loggedOut, outbox, now, tz, nextJti, nextUid, ticks, reviews, codec, tags, procs>>

verify_user_account(token) ==
    LET decoded_token == decode_urlsafe_token(token)
        req == Request("verify", "-", "-", token, {})
    IN
    /\ last = Idle
    /\ IF decoded_token = NoToken
       THEN \* decoded_token.get on None
            /\ last' = Raise(req, "AttributeError", HTTP_200_OK)
            /\ UNCHANGED users
       ELSE IF decoded_token.email = ""
       THEN /\ last' = Return(req, "InvalidVerificationToken", HTTP_200_OK)
            /\ UNCHANGED users
       ELSE IF UsersByEmail(users, decoded_token.email) = {}
       THEN /\ last' = Return(req, "UserNotFound", HTTP_200_OK)
            /\ UNCHANGED users
       ELSE \E user \in UsersByEmail(users, decoded_token.email) :
            /\ users' = update_user_is_verified(users, user)
            /\ last' = Return(req, "JSONResponse", HTTP_200_OK)
    /\ UNCHANGED <<blocklist, issued, loggedOut, outbox, now, tz, nextJti, nextUid, ticks, reviews, codec, tags, procs>>

Verify == \E token \in PathTokenInputs : verify_user_account(token)

(***************************************************************************)
(* POST /login  (login_users)                                              *)
(***************************************************************************)
UserData(user) == [email |-> user.email, user_uid |-> user.uid, role |-> user.role]

login_users(email, password) ==
    LET req == Request("login", email, password, NoToken, {}) IN
    /\ last = Idle
    /\ IF UsersByEmail(users, email) = {}
       THEN /\ last' = Raise(req, "UserNotFound", HTTP_200_OK)
            /\ UNCHANGED <<issued, nextJti>>
       ELSE \E user \in UsersByEmail(users, email) :
            IF ~verify_password(password, user.password_hash)
            THEN /\ last' = Raise(req, "InvalidCredentials", HTTP_200_OK)
                 /\ UNCHANGED <<issued, nextJti>>
            ELSE /\ nextJti + 1 <= MaxJti
                 /\ issued' = issued \cup
                       {create_access_token(UserData(user), ACCESS_TOKEN_EXPIRY, FALSE, now + tz, nextJti),
                        create_access_token(UserData(user), REFRESH_TOKEN_EXPIRE_DAYS * SecondsPerDay,
                                            TRUE, now + tz, nextJti + 1)}
                 /\ last' = Return(req, "JSONResponse", HTTP_200_OK)
                 /\ nextJti' = nextJti + 2
    /\ UNCHANGED <<users, blocklist, loggedOut, outbox, now, tz, nextUid, ticks, reviews, codec, tags, procs>>

Login == \E email \in Emails, password \in Passwords : login_users(email, password)

(***************************************************************************)
(* GET /refresh-token  (get_new_access_token)                              *)
(* dl1: time between the two decodes of the authenticator; dl2: time       *)
(* between the authenticator and the handler's own expiry comparison.      *)
(***************************************************************************)
get_new_access_token(token, dl1, dl2) ==
    LET bl == ExpireKeys(blocklist, now + dl1)
        auth == TokenBearer("refresh", token, now, now + dl1, bl)
        t3 == now + dl1 + dl2
        req == Request("refresh", "-", "-", token, {})
    IN
    /\ last = Idle
    /\ dl1 + dl2 <= 3600
    /\ IF auth.raised # None
       THEN /\ dl2 = 0
            /\ last' = Raise(req, auth.raised, HTTP_200_OK)
            /\ UNCHANGED <<issued, nextJti>>
       ELSE IF auth.token_data.exp + tz < t3 + tz
       THEN \* datetime.fromtimestamp(exp) < datetime.now()
            /\ last' = Return(req, "InvalidToken", HTTP_200_OK)
            /\ UNCHANGED <<issued, nextJti>>
       ELSE /\ nextJti <= MaxJti
            /\ issued' = issued \cup {create_access_token(auth.token_data.user, ACCESS_TOKEN_EXPIRY, FALSE, t3 + tz, nextJti)}
            /\ last' = Return(req, "JSONResponse", HTTP_200_OK)
            /\ nextJti' = nextJti + 1
    /\ Elapse(dl1 + dl2, blocklist)
    /\ UNCHANGED <<users, loggedOut, outbox, tz, nextUid, reviews, codec, tags, procs>>

RefreshToken == \E token \in BearerInputs, dl1 \in Delays, dl2 \in Delays : get_new_access_token(token, dl1, dl2)

(***************************************************************************)
(* Role-gated routes: GET /me with RoleChecker(["admin", "user"]), the     *)
(* book, tag and review routes, GET /reviews with RoleChecker(["admin"]).  *)
(***************************************************************************)
\* variant: the user record is rebuilt from the claims of the token and
\* taken as verified, without reading the user store
get_current_user_from_claims(us, token_details) ==
    {[NoUser EXCEPT !.uid = token_details.user.user_uid, !.email = token_details.user.email,
                    !.role = token_details.user.role, !.is_verified = TRUE]}

get_current_user(us, token_details) ==
    IF UsersByEmail(us, token_details.user.email) = {} THEN {NoUser}
    ELSE UsersByEmail(us, token_details.user.email)

role_gated_route(token, allowed_roles, dl) ==
    LET bl == ExpireKeys(blocklist, now + dl)
        auth == TokenBearer("access", token, now, now + dl, bl)
        req == Request("gated", "-", "-", token, allowed_roles)
    IN
    /\ last = Idle
    /\ IF auth.raised # None
       THEN last' = Raise(req, auth.raised, HTTP_200_OK)
       ELSE \E current_user \in get_current_user(users, auth.token_data) :
            LET decision == RoleChecker(allowed_roles, current_user) IN
            last' = IF decision # None THEN Raise(req, decision, HTTP_200_OK)
                    ELSE Return(req, "User", HTTP_200_OK)
    /\ Elapse(dl, blocklist)
    /\ UNCHANGED <<users, issued, loggedOut, outbox, tz, nextJti, nextUid, reviews, codec, tags, procs>>

RoleGatedRoute == \E token \in BearerInputs, allowed_roles \in RoleCheckers, dl \in Delays : role_gated_route(token, allowed_roles, dl)

(***************************************************************************)
(* GET /logout  (revoke_token)                                             *)
(***************************************************************************)
revoke_token(token, dl) ==
    LET bl == ExpireKeys(blocklist, now + dl)
        auth == TokenBearer("access", token, now, now + dl, bl)
        req == Request("logout", "-", "-", token, {})
    IN
    /\ last = Idle
    /\ ticks + (dl \div 3600) <= MaxTicks
    /\ now' = now + dl
    /\ ticks' = ticks + (dl \div 3600)
    /\ IF auth.raised # None
       THEN /\ last' = Raise(req, auth.raised, HTTP_200_OK)
            /\ blocklist' = bl
            /\ UNCHANGED loggedOut
       ELSE /\ blocklist' = add_jti_to_blocklist(bl, auth.token_data.jti, now + dl)
            /\ loggedOut' = loggedOut \cup {auth.token_data.jti}
            /\ last' = Return(req, "JSONResponse", HTTP_200_OK)
    /\ UNCHANGED <<users, issued, outbox, tz, nextJti, nextUid, reviews, codec, tags, procs>>

Logout == \E token \in BearerInputs, dl \in Delays : revoke_token(token, dl)

(***************************************************************************)
(* POST /password-reset-request  (password_reset_request)                  *)
(***************************************************************************)
\* variant: the handler looks the user up and fails for an unknown email
password_reset_request_lookup(email) ==
    /\ last = Idle
    /\ BagCardinality(outbox) < MaxMail
    /\ IF UsersByEmail(users, email) = {}
       THEN /\ last' = Raise(Request("reset_request", email, "-", NoToken, {}), "UserNotFound", HTTP_200_OK)
            /\ UNCHANGED outbox
       ELSE /\ outbox' = outbox (+) SetToBag({Mail(email, "reset", create_urlsafe_token(email, now))})
            /\ last' = Return(Request("reset_request", email, "-", NoToken, {}), "JSONResponse", HTTP_200_OK)
    /\ UNCHANGED <<users, blocklist, issued, loggedOut, now, tz, nextJti, nextUid, ticks, reviews, codec, tags, procs>>

password_reset_request(email) ==
    /\ last = Idle
    /\ BagCardinality(outbox) < MaxMail
    /\ outbox' = outbox (+) SetToBag({Mail(email, "reset", create_urlsafe_token(email, now))})
    /\ last' = Return(Request("reset_request", email, "-", NoToken, {}), "JSONResponse", HTTP_200_OK)
    /\ UNCHANGED <<users, blocklist, issued, loggedOut, now, tz, nextJti, nextUid, ticks, reviews, codec, tags, procs>>

PasswordResetRequest == \E email \in Emails : password_reset_request(email)

(***************************************************************************)
(* POST /password-reset-confirm/{token}  (reset_account_password)          *)
(***************************************************************************)
\* variant: a successful reset also revokes every token issued to the user
reset_account_password_revoking(token, new_password, confirm_new_password, salt) ==
    LET decoded_token == decode_urlsafe_token(token)
        req == [Request("reset_confirm", "-", new_password, token, {}) EXCEPT !.confirm = confirm_new_password]
    IN
    /\ last = Idle
    /\ IF new_password # confirm_new_password
       THEN /\ last' = Return(req, "ResetPasswordsDoNotMatch", HTTP_200_OK)
            /\ UNCHANGED <<users, blocklist>>
       ELSE IF decoded_token = NoToken
       THEN /\ last' = Raise(req, "AttributeError", HTTP_200_OK)
            /\ UNCHANGED <<users, blocklist>>
       ELSE IF decoded_token.email = ""
       THEN /\ last' = Return(req, "InvalidVerificationToken", HTTP_200_OK)
            /\ UNCHANGED <<users, blocklist>>
       ELSE IF UsersByEmail(users, decoded_token.email) = {}
       THEN /\ last' = Return(req, "UserNotFound", HTTP_200_OK)
            /\ UNCHANGED <<users, blocklist>>
       ELSE \E user \in UsersByEmail(users, decoded_token.email) :
            /\ users' = update_user_password_hash(users, user, generate_password_hash(new_password, salt))
            /\ blocklist' = blocklist \cup {[jti |-> t.jti, expire_at |-> now + JTI_EXPIRY] : t \in {i \in issued : i.user.email = user.email}}
            /\ last' = Return(req, "JSONResponse", HTTP_200_OK)
    /\ UNCHANGED <<issued, loggedOut, outbox, now, tz, nextJti, nextUid, ticks, reviews, codec, tags, procs>>

reset_account_password(token, new_password, confirm_new_password, salt) ==
    LET decoded_token == decode_urlsafe_token(token)
        req == [Request("reset_confirm", "-", new_password, token, {}) EXCEPT !.confirm = confirm_new_password]
    IN
    /\ last = Idle
    /\ IF new_password # confirm_new_password
       THEN /\ last' = Return(req, "ResetPasswordsDoNotMatch", HTTP_200_OK)
            /\ UNCHANGED users
       ELSE IF decoded_token = NoToken
       THEN \* decoded_token.get on None
            /\ last' = Raise(req, "AttributeError", HTTP_200_OK)
            /\ UNCHANGED users
       ELSE IF decoded_token.email = ""
       THEN /\ last' = Return(req, "InvalidVerificationToken", HTTP_200_OK)
            /\ UNCHANGED users
       ELSE IF UsersByEmail(users, decoded_token.email) = {}
       THEN /\ last' = Return(req, "UserNotFound", HTTP_200_OK)
            /\ UNCHANGED users
       ELSE \E user \in UsersByEmail(users, decoded_token.email) :
            /\ users' = update_user_password_hash(users, user, generate_password_hash(new_password, salt))
            /\ last' = Return(req, "JSONResponse", HTTP_200_OK)
    /\ UNCHANGED <<blocklist, issued, loggedOut, outbox, now, tz, nextJti, nextUid, ticks, reviews, codec, tags, procs>>

PasswordResetConfirm ==
    \E token \in PathTokenInputs, new_password \in Passwords, confirm_new_password \in Passwords, salt \in Salts :
        reset_account_password(token, new_password, confirm_new_password, salt)

(***************************************************************************)
(* The pending response reaches the client.                                *)
(***************************************************************************)
Respond ==
    /\ last # Idle
    /\ last' = Idle
    /\ UNCHANGED <<users, blocklist, issued, loggedOut, outbox, now, tz, nextJti, nextUid, ticks, reviews, codec, tags, procs>>

Next ==
    \/ Respond
    \/ Tick
    \/ Signup
    \/ Verify
    \/ Login
    \/ RefreshToken
    \/ RoleGatedRoute
    \/ Logout
    \/ PasswordResetRequest
    \/ PasswordResetConfirm

Spec == Init /\ [][Next]_vars

(***************************************************************************)
(* The same handlers grouped by the part of the service they belong to:   *)
(* the session routes (tokens and the revocation store, the clock running) *)
(* and the account routes (users and mail).                                *)
(***************************************************************************)
NextSession ==
    \/ Respond
    \/ Tick
    \/ Login
    \/ RefreshToken
    \/ RoleGatedRoute
    \/ Logout

SpecSession == Init /\ [][NextSession]_vars

NextAccount ==
    \/ Respond
    \/ Signup
    \/ Verify
    \/ Login
    \/ RoleGatedRoute
    \/ PasswordResetRequest
    \/ PasswordResetConfirm

SpecAccount == Init /\ [][NextAccount]_vars

\* the routes that hand tokens out (login, password-reset-request) and the
\* routes that take one, in the header or in the path
NextTokenKinds ==
    \/ Respond
    \/ Login
    \/ PasswordResetRequest
    \/ RefreshToken
    \/ RoleGatedRoute
    \/ Verify
    \/ PasswordResetConfirm

SpecTokenKinds == Init /\ [][NextTokenKinds]_vars

\* the routes that create or change users and the routes that issue or
\* take bearer tokens
NextIdentity ==
    \/ Respond
    \/ Signup
    \/ Verify
    \/ Login
    \/ RefreshToken
    \/ RoleGatedRoute
    \/ PasswordResetConfirm

SpecIdentity == Init /\ [][NextIdentity]_vars

\* the session routes together with the password-reset routes
NextResetSessions ==
    \/ Respond
    \/ Login
    \/ RefreshToken
    \/ RoleGatedRoute
    \/ Logout
    \/ PasswordResetRequest
    \/ PasswordResetConfirm

SpecResetSessions == Init /\ [][NextResetSessions]_vars

(***************************************************************************)
(* Review routes (src/src/reviews/routes.py, src/src/reviews/service.py).  *)
(* A review row keeps its uid, the email of the user it belongs to and     *)
(* the book it is about.  Every route runs behind RoleChecker(["user",     *)
(* "admin"]); every service method wraps its body in `except Exception`    *)
(* and re-raises whatever was raised as HTTPException(500).                *)
(***************************************************************************)
BookCatalogue == {"book1"}

BookUids == BookCatalogue \cup {"book9"}

ReviewUids == 1..(MaxReviews + 1)

ReviewRequest(op, token, review_uid, book_uid) ==
    [op |-> op, email |-> "-", password |-> "-", confirm |-> "-", token |-> token,
     allowed_roles |-> {"user", "admin"}, review_uid |-> review_uid, book_uid |-> book_uid]

\* rows select(Review).where(Review.uid == review_uid) returns
ReviewsByUid(rs, review_uid) == {r \in rs : r.uid = review_uid}

\* the dependencies of a review route: AccessTokenBearer, get_current_user
\* and user_role_checker; raised is None when the route body may run
ReviewRouteGuard(token, dl) ==
    LET bl == ExpireKeys(blocklist, now + dl)
        auth == TokenBearer("access", token, now, now + dl, bl)
    IN  IF auth.raised # None
        THEN {[raised |-> auth.raised, current_user |-> NoUser]}
        ELSE {[raised |-> RoleChecker({"user", "admin"}, current_user), current_user |-> current_user] :
                 current_user \in get_current_user(users, auth.token_data)}

\* POST /reviews/book/{book_uid}
add_review_to_book(token, book_uid, dl) ==
    LET req == ReviewRequest("add_review", token, 0, book_uid) IN
    /\ last = Idle
    /\ \E guard \in ReviewRouteGuard(token, dl) :
          IF guard.raised # None
          THEN /\ last' = Raise(req, guard.raised, HTTP_200_OK)
               /\ UNCHANGED reviews
          ELSE IF book_uid \notin BookCatalogue
          THEN \* BookNotFound, caught by the method's own except clause
               /\ last' = Raise(req, "HTTPException", HTTP_200_OK)
               /\ UNCHANGED reviews
          ELSE /\ Cardinality(reviews) < MaxReviews
               /\ \E uid \in ReviewUids :
                     /\ ReviewsByUid(reviews, uid) = {}
                     /\ \A other \in ReviewUids : ReviewsByUid(reviews, other) = {} => uid <= other
                     /\ reviews' = reviews \cup {[uid |-> uid, user_email |-> guard.current_user.email, book_uid |-> book_uid]}
               /\ last' = Return(req, "Review", HTTP_200_OK)
    /\ Elapse(dl, blocklist)
    /\ UNCHANGED <<users, issued, loggedOut, outbox, codec, tags, procs, tz, nextJti, nextUid>>

AddReview == \E token \in BearerInputs, book_uid \in BookUids, dl \in Delays : add_review_to_book(token, book_uid, dl)

\* GET /reviews/{review_uid}
get_review(token, review_uid, dl) ==
    LET req == ReviewRequest("get_review", token, review_uid, "-") IN
    /\ last = Idle
    /\ \E guard \in ReviewRouteGuard(token, dl) :
          IF guard.raised # None
          THEN last' = Raise(req, guard.raised, HTTP_200_OK)
          ELSE IF ReviewsByUid(reviews, review_uid) = {}
          THEN \* ReviewNotFound, caught by the method's own except clause
               last' = Raise(req, "HTTPException", HTTP_200_OK)
          ELSE last' = Return(req, "Review", HTTP_200_OK)
    /\ Elapse(dl, blocklist)
    /\ UNCHANGED <<users, issued, loggedOut, outbox, reviews, codec, tags, procs, tz, nextJti, nextUid>>

GetReview == \E token \in BearerInputs, review_uid \in ReviewUids, dl \in Delays : get_review(token, review_uid, dl)

\* GET /reviews/  behind RoleChecker(["admin"])
get_all_reviews(token, dl) ==
    LET bl == ExpireKeys(blocklist, now + dl)
        auth == TokenBearer("access", token, now, now + dl, bl)
        req == [ReviewRequest("get_all_reviews", token, 0, "-") EXCEPT !.allowed_roles = {"admin"}]
    IN
    /\ last = Idle
    /\ IF auth.raised # None
       THEN last' = Raise(req, auth.raised, HTTP_200_OK)
       ELSE \E current_user \in get_current_user(users, auth.token_data) :
            LET decision == RoleChecker({"admin"}, current_user) IN
            IF decision # None
            THEN last' = Raise(req, decision, HTTP_200_OK)
            ELSE IF reviews = {}
            THEN \* ReviewNotFound, caught by the method's own except clause
                 last' = Raise(req, "HTTPException", HTTP_200_OK)
            ELSE last' = Return(req, "List[Review]", HTTP_200_OK)
    /\ Elapse(dl, blocklist)
    /\ UNCHANGED <<users, issued, loggedOut, outbox, reviews, codec, tags, procs, tz, nextJti, nextUid>>

GetAllReviews == \E token \in BearerInputs, dl \in Delays : get_all_reviews(token, dl)

\* DELETE /reviews/{review_uid}  (delete_book -> delete_review_to_from_book).
\* session.delete(review) is called without await: the coroutine never
\* runs, nothing is marked for deletion and the commit writes nothing.
delete_review_to_from_book(token, review_uid, dl) ==
    LET req == ReviewRequest("delete_review", token, review_uid, "-") IN
    /\ last = Idle
    /\ \E guard \in ReviewRouteGuard(token, dl) :
          IF guard.raised # None
          THEN last' = Raise(req, guard.raised, HTTP_204_NO_CONTENT)
          ELSE IF ReviewsByUid(reviews, review_uid) = {}
          THEN \* HTTPException(500) from get_review, wrapped once more
               last' = Raise(req, "HTTPException", HTTP_204_NO_CONTENT)
          ELSE \E review \in ReviewsByUid(reviews, review_uid) :
               IF review.user_email # guard.current_user.email
               THEN \* InsufficientPermission, caught by the method's own except clause
                    last' = Raise(req, "HTTPException", HTTP_204_NO_CONTENT)
               ELSE last' = Return(req, None, HTTP_204_NO_CONTENT)
    /\ Elapse(dl, blocklist)
    /\ UNCHANGED <<users, issued, loggedOut, outbox, reviews, codec, tags, procs, tz, nextJti, nextUid>>

DeleteReview == \E token \in BearerInputs, review_uid \in ReviewUids, dl \in Delays : delete_review_to_from_book(token, review_uid, dl)

\* A deployment in use: a@x.com signed up and verified, the seeded admin
\* verified through a mailed link, and both logged in at instant 0.
Reviewer == [create_user("a@x.com", "secret1", 0, 1) EXCEPT !.is_verified = TRUE]

Admin == [SeedAdmin EXCEPT !.is_verified = TRUE]

InitReviews ==
    /\ users = {Reviewer, Admin}
    /\ blocklist = {}
    /\ tz \in TzOffsets
    /\ issued = {create_access_token(UserData(Reviewer), ACCESS_TOKEN_EXPIRY, FALSE, tz, 1),
                 create_access_token(UserData(Reviewer), REFRESH_TOKEN_EXPIRE_DAYS * SecondsPerDay, TRUE, tz, 2),
                 create_access_token(UserData(Admin), ACCESS_TOKEN_EXPIRY, FALSE, tz, 3),
                 create_access_token(UserData(Admin), REFRESH_TOKEN_EXPIRE_DAYS * SecondsPerDay, TRUE, tz, 4)}
    /\ loggedOut = {}
    /\ outbox = SetToBag({Mail(Reviewer.email, "verify", create_urlsafe_token(Reviewer.email, 0)),
                           Mail(Admin.email, "reset", create_urlsafe_token(Admin.email, 0))})
    /\ reviews = {}
    /\ tags = {}
    /\ codec = NoCodec
    /\ procs = [p \in Procs |-> IdleProc]
    /\ now = 0
    /\ nextJti = 5
    /\ nextUid = 2
    /\ ticks = 0
    /\ last = Idle

NextReviews ==
    \/ Respond
    \/ AddReview
    \/ GetReview
    \/ GetAllReviews
    \/ DeleteReview

SpecReviews == InitReviews /\ [][NextReviews]_vars

(***************************************************************************)
(* Tag routes (src/src/tags/routes.py, src/src/tags/service.py).  A tag    *)
(* row keeps its uid and its name.  Every route depends on                 *)
(* RoleChecker(["user", "admin"]), the dependency chain of the review      *)
(* routes.                                                                 *)
(***************************************************************************)
TagNames == {"fiction", "poetry"}

TagUids == 1..(MaxTags + 1)

TagRequest(op, token, tag_uid, name) ==
    [op |-> op, email |-> "-", password |-> "-", confirm |-> "-", token |-> token,
     allowed_roles |-> {"user", "admin"}, tag_uid |-> tag_uid, name |-> name]

\* rows select(Tag).where(Tag.uid == tag_uid) returns
get_tag_by_uid(ts, tag_uid) == {t \in ts : t.uid = tag_uid}

\* POST /tags/  (create_tag -> TagService.add_tag)
add_tag(token, name, dl) ==
    LET req == TagRequest("create_tag", token, 0, name) IN
    /\ last = Idle
    /\ \E guard \in ReviewRouteGuard(token, dl) :
          IF guard.raised # None
          THEN /\ last' = Raise(req, guard.raised, HTTP_201_CREATED)
               /\ UNCHANGED tags
          ELSE IF \E t \in tags : t.name = name
          THEN /\ last' = Raise(req, "TagAlreadyExists", HTTP_201_CREATED)
               /\ UNCHANGED tags
          ELSE /\ Cardinality(tags) < MaxTags
               /\ \E uid \in TagUids :
                     /\ get_tag_by_uid(tags, uid) = {}
                     /\ \A other \in TagUids : get_tag_by_uid(tags, other) = {} => uid <= other
                     /\ tags' = tags \cup {[uid |-> uid, name |-> name]}
               /\ last' = Return(req, "Tag", HTTP_201_CREATED)
    /\ Elapse(dl, blocklist)
    /\ UNCHANGED <<users, issued, loggedOut, outbox, reviews, codec, procs, tz, nextJti, nextUid>>

CreateTag == \E token \in BearerInputs, name \in TagNames, dl \in Delays : add_tag(token, name, dl)

\* variant: the service hands the deleted row back to the route
TagService_delete_tag_returns_row(ts, tag_uid) ==
    IF get_tag_by_uid(ts, tag_uid) = {}
    THEN {[raised |-> "TagNotFound", tags |-> ts, returned |-> None]}
    ELSE {[raised |-> None, tags |-> ts \ {tag}, returned |-> "Tag"] : tag \in get_tag_by_uid(ts, tag_uid)}

\* TagService.delete_tag: the row is deleted and committed; the method has
\* no return statement, so the caller receives None.
TagService_delete_tag(ts, tag_uid) ==
    IF get_tag_by_uid(ts, tag_uid) = {}
    THEN {[raised |-> "TagNotFound", tags |-> ts, returned |-> None]}
    ELSE {[raised |-> None, tags |-> ts \ {tag}, returned |-> None] : tag \in get_tag_by_uid(ts, tag_uid)}

\* DELETE /tags/{tag_uid}: the route raises TagNotFound when the value the
\* service returned is falsy.
delete_tag(token, tag_uid, dl) ==
    LET req == TagRequest("delete_tag", token, tag_uid, "-") IN
    /\ last = Idle
    /\ \E guard \in ReviewRouteGuard(token, dl) :
          IF guard.raised # None
          THEN /\ last' = Raise(req, guard.raised, HTTP_204_NO_CONTENT)
               /\ UNCHANGED tags
          ELSE \E deleted \in TagService_delete_tag(tags, tag_uid) :
               /\ tags' = deleted.tags
               /\ last' = IF deleted.raised # None THEN Raise(req, deleted.raised, HTTP_204_NO_CONTENT)
                          ELSE IF deleted.returned = None THEN Raise(req, "TagNotFound", HTTP_204_NO_CONTENT)
                          ELSE Return(req, None, HTTP_204_NO_CONTENT)
    /\ Elapse(dl, blocklist)
    /\ UNCHANGED <<users, issued, loggedOut, outbox, reviews, codec, procs, tz, nextJti, nextUid>>

DeleteTag == \E token \in BearerInputs, tag_uid \in TagUids, dl \in Delays : delete_tag(token, tag_uid, dl)

NextTags ==
    \/ Respond
    \/ CreateTag
    \/ DeleteTag

SpecTags == InitReviews /\ [][NextTags]_vars

(***************************************************************************)
(* Concurrent requests on the access-token routes.  A handler is a         *)
(* coroutine: other requests (and other server processes) run between its  *)
(* awaits.  The steps of GET /logout and of a role-gated route are the     *)
(* synchronous stretches between the awaits of TokenBearer.__call__,       *)
(* RoleChecker and revoke_token; each Redis command is one atomic step.    *)
(***************************************************************************)
ConcurrentOps == {"gated", "logout"}

\* a logout of the token with this jti has sent its response
LogoutResponded(ps, jti) ==
    \E q \in Procs : ps[q].op = "logout" /\ ps[q].pc = "done" /\ ps[q].result = "Accepted" /\ ps[q].token_data.jti = jti

\* the request arrives: token_valid(token) and decode_token(token), with no
\* await in between
BeginRequest(p, op, token) ==
    LET token_data == decode_token(token, now) IN
    /\ last = Idle
    /\ procs[p].pc = "idle"
    /\ procs' = [procs EXCEPT ![p] =
          IF token_data = NoToken
          THEN [IdleProc EXCEPT !.pc = "done", !.op = op, !.token = token, !.result = "InvalidToken",
                                !.after_logout = LogoutResponded(procs, token.jti)]
          ELSE [IdleProc EXCEPT !.pc = "decoded", !.op = op, !.token = token, !.token_data = token_data,
                                !.after_logout = LogoutResponded(procs, token.jti)]]
    /\ UNCHANGED <<users, blocklist, issued, loggedOut, outbox, reviews, tags, codec, now, tz, nextJti, nextUid, ticks, last>>

\* await token_in_blocklist(token_data["jti"]) (EXISTS), then
\* verify_token_data of AccessTokenBearer
RevocationCheck(p) ==
    /\ procs[p].pc = "decoded"
    /\ procs' = [procs EXCEPT ![p] =
          IF token_in_blocklist(blocklist, procs[p].token_data.jti)
          THEN [@ EXCEPT !.pc = "done", !.result = "InvalidToken"]
          ELSE IF verify_token_data("access", procs[p].token_data) # None
          THEN [@ EXCEPT !.pc = "done", !.result = verify_token_data("access", procs[p].token_data)]
          ELSE [@ EXCEPT !.pc = "checked"]]
    /\ UNCHANGED <<users, blocklist, issued, loggedOut, outbox, reviews, tags, codec, now, tz, nextJti, nextUid, ticks, last>>

\* revoke_token: await add_jti_to_blocklist(jti) (SETEX)
RevocationInsert(p) ==
    /\ procs[p].pc = "checked"
    /\ procs[p].op = "logout"
    /\ blocklist' = add_jti_to_blocklist(blocklist, procs[p].token_data.jti, now)
    /\ loggedOut' = loggedOut \cup {procs[p].token_data.jti}
    /\ procs' = [procs EXCEPT ![p].pc = "inserted"]
    /\ UNCHANGED <<users, issued, outbox, reviews, tags, codec, now, tz, nextJti, nextUid, ticks, last>>

\* the response is sent: the JSONResponse of revoke_token, or the outcome
\* of get_current_user and RoleChecker(["admin", "user"]) of a gated route
EndRequest(p) ==
    /\ \/ procs[p].op = "logout" /\ procs[p].pc = "inserted" /\ procs' = [procs EXCEPT ![p].pc = "done", ![p].result = "Accepted"]
       \/ /\ procs[p].op = "gated"
          /\ procs[p].pc = "checked"
          /\ \E current_user \in get_current_user(users, procs[p].token_data) :
                LET decision == RoleChecker({"admin", "user"}, current_user) IN
                procs' = [procs EXCEPT ![p].pc = "done", ![p].result = IF decision # None THEN decision ELSE "Accepted"]
    /\ UNCHANGED <<users, blocklist, issued, loggedOut, outbox, reviews, tags, codec, now, tz, nextJti, nextUid, ticks, last>>

NextRevocation ==
    \/ Tick
    \/ \E p \in Procs, op \in ConcurrentOps, token \in issued : BeginRequest(p, op, token)
    \/ \E p \in Procs : RevocationCheck(p)
    \/ \E p \in Procs : RevocationInsert(p)
    \/ \E p \in Procs : EndRequest(p)

SpecRevocation == InitReviews /\ [][NextRevocation]_vars

(***************************************************************************)
(* Concurrent POST /signup requests: create_user_account awaits            *)
(* user_service.user_exists, then awaits user_service.create_user (which   *)
(* commits), then enqueues the mail and returns.  The users table has no   *)
(* unique constraint on email (src/src/db/models.py), so the commit of a   *)
(* second row with the same email succeeds.                                *)
(***************************************************************************)
\* user_exists = await user_service.user_exists(email, session)
SignupCheck(p, email, password) ==
    /\ last = Idle
    /\ procs[p].pc = "idle"
    /\ procs' = [procs EXCEPT ![p] =
          IF user_exists(users, email)
          THEN [IdleProc EXCEPT !.pc = "done", !.op = "signup", !.email = email, !.password = password,
                                !.result = "UserAlreadyExists"]
          ELSE [IdleProc EXCEPT !.pc = "checked", !.op = "signup", !.email = email, !.password = password]]
    /\ UNCHANGED <<users, blocklist, issued, loggedOut, outbox, reviews, tags, codec, now, tz, nextJti, nextUid, ticks, last>>

\* new_user = await user_service.create_user(user_data, session)
SignupCreate(p) ==
    /\ procs[p].op = "signup"
    /\ procs[p].pc = "checked"
    /\ nextUid <= MaxUsers
    /\ \E salt \in Salts :
          users' = users \cup {create_user(procs[p].email, procs[p].password, salt, nextUid)}
    /\ nextUid' = nextUid + 1
    /\ procs' = [procs EXCEPT ![p].pc = "created"]
    /\ UNCHANGED <<blocklist, issued, loggedOut, outbox, reviews, tags, codec, now, tz, nextJti, ticks, last>>

\* send_mail_task.delay(...) and the 201 response
SignupRespond(p) ==
    /\ procs[p].op = "signup"
    /\ procs[p].pc = "created"
    /\ BagCardinality(outbox) < MaxMail
    /\ outbox' = outbox (+) SetToBag({Mail(procs[p].email, "verify", create_urlsafe_token(procs[p].email, now))})
    /\ procs' = [procs EXCEPT ![p].pc = "done", ![p].result = "Created"]
    /\ UNCHANGED <<users, blocklist, issued, loggedOut, reviews, tags, codec, now, tz, nextJti, nextUid, ticks, last>>

NextSignup ==
    \/ \E p \in Procs, email \in Emails, password \in Passwords : SignupCheck(p, email, password)
    \/ \E p \in Procs : SignupCreate(p)
    \/ \E p \in Procs : SignupRespond(p)

SpecSignup == Init /\ [][NextSignup]_vars

(***************************************************************************)
(* The token codec on its own (create_access_token / decode_token of       *)
(* src/src/auth/utils.py), applied to arbitrary claims at arbitrary times. *)
(***************************************************************************)
ClaimsValues == {UserData(SeedAdmin)} \cup {UserData(create_user(email, "secret1", 0, 1)) : email \in Emails}

Expiries == {ACCESS_TOKEN_EXPIRY, REFRESH_TOKEN_EXPIRE_DAYS * SecondsPerDay}

EncodeToken ==
    \E user_data \in ClaimsValues, expiry \in Expiries, refresh \in BOOLEAN, issued_at \in {0} \cup TickSteps, jti \in 1..MaxJti :
        /\ codec' = [NoCodec EXCEPT !.user_data = user_data, !.refresh = refresh, !.jti = jti,
                                     !.token = create_access_token(user_data, expiry, refresh, issued_at + tz, jti)]
        /\ UNCHANGED <<users, blocklist, issued, loggedOut, outbox, reviews, tags, procs, now, tz, nextJti, nextUid, ticks, last>>

DecodeToken ==
    \E t \in {0, codec.token.exp - 1, codec.token.exp, codec.token.exp + 1} :
        /\ codec.token # NoToken
        /\ codec' = [codec EXCEPT !.decoded = TRUE, !.at = t, !.token_data = decode_token(codec.token, t)]
        /\ UNCHANGED <<users, blocklist, issued, loggedOut, outbox, reviews, tags, procs, now, tz, nextJti, nextUid, ticks, last>>

NextCodec ==
    \/ EncodeToken
    \/ DecodeToken

SpecCodec == Init /\ [][NextCodec]_vars

(***************************************************************************)
(* Properties                                                              *)
(***************************************************************************)
WellSigned(token) == token.fmt = "jwt" /\ token.sig = JwtSig

AccessRoutes == {"gated", "logout"}

RefreshRoutes == {"refresh"}

BearerRoutes == AccessRoutes \cup RefreshRoutes

\* the store bl holds an entry for jti whose TTL has not run out at time t
EntryPresent(bl, jti, t) == \E e \in bl : e.jti = jti /\ t < e.expire_at

\* rejections raised by TokenBearer.__call__ before the route body runs
AuthRejections == {"InvalidToken", "TypeError", "AccessTokenRequired", "RefreshTokenRequired"}

\* C1: a validly signed, unexpired token is never accepted by the bearer
\* class of the other kind: AccessTokenBearer does not accept a token whose
\* refresh flag is true and, unless it is revoked, raises
\* AccessTokenRequired; RefreshTokenBearer does not accept a token whose
\* refresh flag is false and, unless it is revoked, raises
\* RefreshTokenRequired.
C1_TokenKindsNeverConfused ==
    LET token == last.req.token IN
    (WellSigned(token) /\ token.exp > now) =>
        /\ (last.req.op \in AccessRoutes /\ token.refresh) =>
              /\ last.raised # None
              /\ ~EntryPresent(blocklist, token.jti, now) => last.raised = "AccessTokenRequired"
        /\ (last.req.op \in RefreshRoutes /\ ~token.refresh) =>
              /\ last.raised # None
              /\ ~EntryPresent(blocklist, token.jti, now) => last.raised = "RefreshTokenRequired"

C1_Witness ==
    /\ last.req.op = "refresh"
    /\ WellSigned(last.req.token)
    /\ last.req.token.exp > now
    /\ ~last.req.token.refresh
    /\ ~EntryPresent(blocklist, last.req.token.jti, now)
    /\ last.raised = "RefreshTokenRequired"

\* C2: while the revocation store holds the jti of a token, every request
\* that presents that token to either bearer class is rejected with
\* InvalidToken, although the token is validly signed and not yet expired.
C2_RevokedTokenRejected ==
    [][(/\ last = Idle
        /\ last'.req.op \in BearerRoutes
        /\ WellSigned(last'.req.token)
        /\ last'.req.token.exp > now'
        /\ EntryPresent(blocklist, last'.req.token.jti, now'))
       => (last'.raised = "InvalidToken" /\ last'.status = HTTP_401_UNAUTHORIZED)]_vars

C2_Witness ==
    /\ last.req.op = "gated"
    /\ WellSigned(last.req.token)
    /\ last.req.token.exp > now
    /\ last.req.token.jti \in loggedOut
    /\ EntryPresent(blocklist, last.req.token.jti, now)
    /\ last.raised = "InvalidToken"

\* C3: the revocation entry outlives the token it revokes: an access token
\* that was logged out and is still validly signed and unexpired has its
\* entry in the revocation store, and no request presenting a logged-out
\* token gets past the access-required authenticator.
C3_RevocationOutlivesToken ==
    /\ \A t \in issued :
          (~t.refresh /\ t.jti \in loggedOut /\ WellSigned(t) /\ t.exp > now)
             => EntryPresent(blocklist, t.jti, now)
    /\ (last.req.op = "gated" /\ last.req.token.jti \in loggedOut)
          => last.raised \in AuthRejections

\* C4: for the user record resolved from an accepted access token and the
\* allowed-role set of the route, RoleChecker raises AccountNotVerified when
\* is_verified is false whatever the role, otherwise
\* InsufficientPermission when the role is not allowed, otherwise accepts.
C4_RoleCheckerDecision ==
    (last.req.op = "gated" /\ last.raised \notin AuthRejections) =>
        \E u \in users :
            /\ u.email = last.req.token.user.email
            /\ last.raised = (IF ~u.is_verified THEN "AccountNotVerified"
                              ELSE IF u.role \notin last.req.allowed_roles THEN "InsufficientPermission"
                              ELSE None)

C4_Witness ==
    /\ last.req.op = "gated"
    /\ last.raised = "AccountNotVerified"
    /\ last.status = HTTP_403_FORBIDDEN
    /\ \E u \in users : /\ u.email = last.req.token.user.email
                        /\ ~u.is_verified
                        /\ u.role = "admin"
                        /\ u.role \in last.req.allowed_roles

\* C5: a signup whose email already has a user raises UserAlreadyExists
\* (409), and that call adds no user, changes no user and enqueues no mail.
C5_DuplicateSignupRejected ==
    [][(/\ last = Idle
        /\ last'.req.op = "signup"
        /\ \E u \in users : u.email = last'.req.email)
       => (/\ last'.raised = "UserAlreadyExists"
           /\ last'.status = HTTP_409_CONFLICT
           /\ users' = users
           /\ outbox' = outbox)]_vars

C5_Witness ==
    /\ last.req.op = "signup"
    /\ last.raised = "UserAlreadyExists"
    /\ \E u \in users : u.email = last.req.email /\ u.role = "user"

\* C6: login raises UserNotFound when no user has the email and
\* InvalidCredentials when the user's stored hash does not match the
\* password; a failed login issues no token and changes neither the user
\* store nor the revocation store.
C6_LoginFailures ==
    [][(last = Idle /\ last'.req.op = "login") =>
          /\ (~\E u \in users : u.email = last'.req.email) => last'.raised = "UserNotFound"
          /\ (\E u \in users : u.email = last'.req.email /\ u.password_hash.digest[2] # last'.req.password)
                => last'.raised = "InvalidCredentials"
          /\ last'.raised \in {"UserNotFound", "InvalidCredentials"}
                => (issued' = issued /\ nextJti' = nextJti /\ users' = users /\ blocklist' = blocklist)]_vars

C6_Witness ==
    /\ last.req.op = "login"
    /\ last.raised = "InvalidCredentials"
    /\ last.status = HTTP_401_UNAUTHORIZED
    /\ \E u \in users : u.email = last.req.email /\ u.password_hash.digest[2] # last.req.password

\* C7: a successful login issues exactly two tokens, an access token
\* (refresh false, expiry one hour after the login instant) and a refresh
\* token (refresh true, expiry two days after the login instant), with the
\* identity claims of the logged-in user, different jti, and the refresh
\* token expiring strictly later.
C7_LoginIssuesTokenPair ==
    [][(last = Idle /\ last'.req.op = "login" /\ last'.raised = None) =>
          /\ Cardinality(issued' \ issued) = 2
          /\ \E a, r \in issued' \ issued :
                /\ ~a.refresh /\ a.exp = now + ACCESS_TOKEN_EXPIRY
                /\ r.refresh /\ r.exp = now + REFRESH_TOKEN_EXPIRE_DAYS * SecondsPerDay
                /\ a.jti # r.jti
                /\ r.exp > a.exp
                /\ a.user = r.user
                /\ \E u \in users : /\ u.email = last'.req.email
                                    /\ a.user = [email |-> u.email, user_uid |-> u.uid, role |-> u.role]]_vars

\* C8: password-reset-confirm with new_password different from
\* confirm_new_password fails with ResetPasswordsDoNotMatch (the 400
\* passwords_do_not_match response) for every token, and changes no user.
C8_MismatchFailsTyped ==
    [][(/\ last = Idle
        /\ last'.req.op = "reset_confirm"
        /\ last'.req.password # last'.req.confirm)
       => (/\ last'.raised = "ResetPasswordsDoNotMatch"
           /\ last'.status = HTTP_400_BAD_REQUEST
           /\ users' = users)]_vars

\* the token was put in a verification mail by signup
SignupToken(token) == \E m \in BagToSet(outbox) : m.subject = "verify" /\ m.token = token

\* C9: verify with the token a signup mailed sets is_verified of the user
\* with that email to true and changes nothing else (no other user, no other
\* field, no token, no mail); on a user that is already verified it changes
\* nothing at all.
C9_VerifySetsFlagIdempotently ==
    [][(last = Idle /\ last'.req.op = "verify" /\ SignupToken(last'.req.token)) =>
          /\ last'.raised = None
          /\ last'.returned = "JSONResponse"
          /\ last'.status = HTTP_200_OK
          /\ users' = {IF u.email = last'.req.token.email THEN [u EXCEPT !.is_verified = TRUE] ELSE u : u \in users}
          /\ \E u \in users' : u.email = last'.req.token.email /\ u.is_verified
          /\ (\A u \in users : u.email = last'.req.token.email => u.is_verified) => users' = users
          /\ UNCHANGED <<blocklist, issued, loggedOut, outbox, nextJti, nextUid>>]_vars

C9_Witness ==
    /\ last.req.op = "verify"
    /\ SignupToken(last.req.token)
    /\ last.returned = "JSONResponse"
    /\ \E u \in users : u.email = last.req.token.email /\ u.is_verified
    /\ \E u \in users : u.email # last.req.token.email /\ ~u.is_verified

\* C10: verify with a token that the serializer does not accept fails with
\* InvalidVerificationToken, and with a well-signed token whose email has
\* no user fails with UserNotFound; the caller receives that typed failure
\* and no user changes.
C10_VerifyFailureIsTyped ==
    [][(last = Idle /\ last'.req.op = "verify") =>
          /\ ~(last'.req.token.fmt = "opaque" /\ last'.req.token.sig = SerializerSig)
                => (/\ last'.raised = "InvalidVerificationToken"
                    /\ last'.status = HTTP_400_BAD_REQUEST
                    /\ users' = users)
          /\ (/\ last'.req.token.fmt = "opaque" /\ last'.req.token.sig = SerializerSig
              /\ ~\E u \in users : u.email = last'.req.token.email)
                => (/\ last'.raised = "UserNotFound"
                    /\ last'.status = HTTP_404_NOT_FOUND
                    /\ users' = users)]_vars

\* the stored hash of the user with this email matches the password
CredentialAccepts(us, email, password) ==
    \E u \in us : u.email = email /\ u.password_hash.digest = <<u.password_hash.salt, password>>

\* the token was put in a password-reset mail by password-reset-request
ResetToken(token) == \E m \in BagToSet(outbox) : m.subject = "reset" /\ m.token = token

\* C11: password-reset-confirm with equal passwords, a token mailed by
\* password-reset-request and an existing user succeeds and replaces the
\* credential of exactly that user, leaving every other user and every
\* other field alone; the stored credential then accepts the new password
\* and no longer accepts a different password it accepted before; and every
\* login with a password the stored credential accepts succeeds, while one
\* with a password it does not accept fails with InvalidCredentials.
C11_ResetReplacesCredential ==
    [][/\ (/\ last = Idle
           /\ last'.req.op = "reset_confirm"
           /\ last'.req.password = last'.req.confirm
           /\ ResetToken(last'.req.token)
           /\ \E u \in users : u.email = last'.req.token.email)
          => (/\ last'.raised = None
              /\ last'.returned = "JSONResponse"
              /\ last'.status = HTTP_200_OK
              /\ Cardinality(users') = Cardinality(users)
              /\ \A u \in users : u.email # last'.req.token.email => u \in users'
              /\ \E u \in users, v \in users' :
                    /\ u.email = last'.req.token.email
                    /\ v = [u EXCEPT !.password_hash = v.password_hash]
              /\ CredentialAccepts(users', last'.req.token.email, last'.req.password)
              /\ \A p \in Passwords \ {last'.req.password} :
                    CredentialAccepts(users, last'.req.token.email, p)
                       => ~CredentialAccepts(users', last'.req.token.email, p))
       /\ (last = Idle /\ last'.req.op = "login" /\ \E u \in users : u.email = last'.req.email) =>
             IF CredentialAccepts(users, last'.req.email, last'.req.password)
             THEN last'.raised = None /\ last'.status = HTTP_200_OK /\ issued' # issued
             ELSE last'.raised = "InvalidCredentials" /\ issued' = issued]_vars

\* a reset has replaced the seeded credential by one for another password
C11_Witness ==
    /\ last.req.op = "reset_confirm"
    /\ last.returned = "JSONResponse"
    /\ ResetToken(last.req.token)
    /\ last.req.token.email = SeedAdmin.email
    /\ CredentialAccepts(users, SeedAdmin.email, last.req.password)
    /\ \A u \in users : u.email = SeedAdmin.email => u.password_hash # SeedAdmin.password_hash

\* C12: password-reset-request answers the same whether or not the email has
\* a user: it raises nothing, returns the 200 success response, enqueues
\* exactly one reset mail addressed to the given email carrying a token
\* keyed by that email, and changes nothing else, so the response and the
\* mail are determined by the request alone and not by the user store.
C12_ResetRequestDoesNotEnumerate ==
    [][(last = Idle /\ last'.req.op = "reset_request") =>
          /\ last'.raised = None
          /\ last'.returned = "JSONResponse"
          /\ last'.status = HTTP_200_OK
          /\ BagCardinality(outbox') = BagCardinality(outbox) + 1
          /\ \E m \in BagToSet(outbox') :
                /\ outbox' = outbox (+) SetToBag({m})
                /\ m.recipients = {last'.req.email}
                /\ m.subject = "reset"
                /\ m.token.fmt = "opaque"
                /\ m.token.sig = SerializerSig
                /\ m.token.email = last'.req.email
                /\ m.token.iat = now
          /\ UNCHANGED <<users, blocklist, issued, loggedOut, now, nextJti, nextUid>>]_vars

C12_Witness ==
    /\ last.req.op = "reset_request"
    /\ last.returned = "JSONResponse"
    /\ last.status = HTTP_200_OK
    /\ ~\E u \in users : u.email = last.req.email
    /\ \E m \in BagToSet(outbox) : m.recipients = {last.req.email} /\ m.subject = "reset"

\* C13: refresh with a token the refresh-required authenticator accepts
\* mints exactly one new token: well signed, refresh flag false, identity
\* claims equal to those of the refresh token, a jti different from the
\* refresh token's and from every token issued before, and expiring one
\* default access lifetime after the request; the user store is unchanged
\* and nothing is added to the revocation store.
C13_RefreshMintsAccessToken ==
    [][(last = Idle /\ last'.req.op = "refresh" /\ last'.raised \notin AuthRejections) =>
          /\ last'.raised = None
          /\ last'.returned = "JSONResponse"
          /\ \E a \in issued' :
                /\ a \notin issued
                /\ issued' = issued \cup {a}
                /\ WellSigned(a)
                /\ ~a.refresh
                /\ a.user = last'.req.token.user
                /\ a.jti # last'.req.token.jti
                /\ \A t \in issued : t.jti # a.jti
                /\ a.exp = now' + ACCESS_TOKEN_EXPIRY
          /\ users' = users
          /\ blocklist' \subseteq blocklist]_vars

PathTokenRoutes == {"verify", "reset_confirm"}

\* C14: a token mailed for e-mail verification or password reset is never
\* accepted by the access-required or the refresh-required authenticator
\* (the request is rejected before the route body and mints nothing), and an
\* issued access or refresh token is never accepted as the token of verify
\* or password-reset-confirm (no success response, no user changed).
C14_OpaqueAndBearerNotInterchangeable ==
    [][/\ (/\ last = Idle
           /\ last'.req.op \in BearerRoutes
           /\ last'.req.token \in MailedTokens)
          => (/\ last'.raised \in AuthRejections
              /\ last'.status = HTTP_401_UNAUTHORIZED
              /\ issued' = issued
              /\ UNCHANGED <<users, loggedOut>>)
       /\ (/\ last = Idle
           /\ last'.req.op \in PathTokenRoutes
           /\ last'.req.token \in issued)
          => (/\ last'.returned # "JSONResponse"
              /\ users' = users)]_vars

C14_Witness ==
    /\ last.req.op = "refresh"
    /\ last.req.token \in MailedTokens
    /\ last.raised = "InvalidToken"
    /\ \E t \in issued : t.refresh

\* C15: verification and reset tokens expire: there is a max age after which
\* verify and password-reset-confirm reject an opaque token.  Stated for
\* the longest max age that the modelled time span can exceed, which every
\* shorter max age implies: a token older than that is not accepted.
C15_OpaqueTokensExpire ==
    (/\ last.req.op \in PathTokenRoutes
     /\ last.req.token.fmt = "opaque"
     /\ now - last.req.token.iat > (MaxTicks - 1) * 3600)
       => last.returned # "JSONResponse"

\* what the client sees of a response: the error raised (which fixes the
\* body its handler sends), the kind of value returned, and the status
Observable(resp) == <<resp.raised, resp.returned, resp.status>>

\* C16: a request whose token is validly signed and unexpired but revoked
\* gets exactly the response of a request whose token fails decoding when
\* the request arrives (bad signature, not a JWT, or already expired): the
\* InvalidToken rejection with status 401, so the two cannot be told apart.
C16_RevocationDoesNotLeak ==
    [][(last = Idle /\ last'.req.op \in BearerRoutes) =>
          /\ (/\ WellSigned(last'.req.token)
              /\ last'.req.token.exp > now'
              /\ EntryPresent(blocklist, last'.req.token.jti, now'))
                => Observable(last') = <<"InvalidToken", None, HTTP_401_UNAUTHORIZED>>
          /\ (~WellSigned(last'.req.token) \/ last'.req.token.exp <= now)
                => Observable(last') = <<"InvalidToken", None, HTTP_401_UNAUTHORIZED>>]_vars

C16_Witness ==
    /\ last.req.op = "logout"
    /\ WellSigned(last.req.token)
    /\ last.req.token.exp > now
    /\ last.req.token.jti \in loggedOut
    /\ EntryPresent(blocklist, last.req.token.jti, now)
    /\ Observable(last) = <<"InvalidToken", None, HTTP_401_UNAUTHORIZED>>

\* the error classes of src/src/errors.py that the auth endpoints name
AuthErrors == {"InvalidToken", "AccessTokenRequired", "RefreshTokenRequired", "InvalidCredentials",
               "AccountNotVerified", "InsufficientPermission", "UserNotFound", "UserAlreadyExists",
               "ResetPasswordsDoNotMatch", "InvalidVerificationToken"}

\* the failure a response carries, raised or handed back as the return
\* value; None for a success
FailureOf(resp) ==
    IF resp.raised # None THEN resp.raised
    ELSE IF resp.returned \in AuthErrors THEN resp.returned
    ELSE None

\* C17: every outcome of an auth endpoint reaches the caller with the
\* status assigned to it: 201 for a successful signup, 200 for any other
\* success, 401 for the token-validity failures, 403 for AccountNotVerified
\* and InsufficientPermission, 404 for UserNotFound, 409 for
\* UserAlreadyExists, 400 for a malformed reset confirmation; and no
\* failure is delivered with a success status.
C17_StatusCodes ==
    last # Idle =>
        LET failure == FailureOf(last) IN
        /\ failure = None =>
              last.status = (IF last.req.op = "signup" THEN HTTP_201_CREATED ELSE HTTP_200_OK)
        /\ failure # None => last.status \notin {HTTP_200_OK, HTTP_201_CREATED}
        /\ failure \in {"InvalidToken", "AccessTokenRequired", "RefreshTokenRequired"}
              => last.status = HTTP_401_UNAUTHORIZED
        /\ failure \in {"AccountNotVerified", "InsufficientPermission"} => last.status = HTTP_403_FORBIDDEN
        /\ failure = "UserNotFound" => last.status = HTTP_404_NOT_FOUND
        /\ failure = "UserAlreadyExists" => last.status = HTTP_409_CONFLICT
        /\ failure \in {"ResetPasswordsDoNotMatch", "InvalidVerificationToken"}
              => last.status = HTTP_400_BAD_REQUEST

C19_SignupCreatesUserAndMail ==
    [][(/\ last = Idle
        /\ last'.req.op = "signup"
        /\ ~\E u \in users : u.email = last'.req.email)
       => (/\ last'.raised = None
           /\ last'.status = HTTP_201_CREATED
           /\ \E u \in users' :
                 /\ u \notin users
                 /\ users' = users \cup {u}
                 /\ u.email = last'.req.email
                 /\ ~u.is_verified
                 /\ u.role = "user"
                 /\ u.password_hash.digest = <<u.password_hash.salt, last'.req.password>>
                 /\ \A v \in users : v.uid # u.uid
           /\ \E m \in BagToSet(outbox') :
                 /\ outbox' = outbox (+) SetToBag({m})
                 /\ m.recipients = {last'.req.email}
                 /\ m.subject = "verify"
                 /\ m.token.fmt = "opaque"
                 /\ m.token.sig = SerializerSig
                 /\ m.token.email = last'.req.email
           /\ \A m \in BagToSet(outbox') :
                 m.subject = "verify" => \E u \in users' : m.recipients = {u.email})]_vars

C19_Witness ==
    /\ last.req.op = "signup"
    /\ last.raised = None
    /\ last.status = HTTP_201_CREATED
    /\ \E u \in users : u.email = last.req.email /\ ~u.is_verified /\ u.role = "user"
    /\ \E m \in BagToSet(outbox) : m.subject = "verify" /\ m.recipients = {last.req.email}

\* C20: a delete request for an existing review by a verified user with an
\* accepted access token removes the review when the requester is its
\* author or has role admin (a later get finds nothing), and otherwise
\* fails with InsufficientPermission and leaves the review in the store.
C20_ReviewDeleteAuthorOrAdmin ==
    [][(/\ last = Idle
        /\ last'.req.op = "delete_review"
        /\ last'.raised \notin AuthRejections \cup {"AccountNotVerified", "AttributeError"})
       => \A review \in reviews, u \in users :
             (review.uid = last'.req.review_uid /\ u.email = last'.req.token.user.email) =>
                IF review.user_email = u.email \/ u.role = "admin"
                THEN /\ last'.raised = None
                     /\ reviews' = reviews \ {review}
                ELSE /\ last'.raised = "InsufficientPermission"
                     /\ last'.status = HTTP_403_FORBIDDEN
                     /\ reviews' = reviews]_vars

\* C21: a delete request that reaches the route body for a tag uid that
\* exists removes the tag and completes with 204; TagNotFound is raised
\* only when no tag has the uid, and then the tag store is unchanged.
C21_TagDelete ==
    [][(/\ last = Idle
        /\ last'.req.op = "delete_tag"
        /\ last'.raised \notin AuthRejections \cup {"AccountNotVerified", "AttributeError", "InsufficientPermission"})
       => IF \E t \in tags : t.uid = last'.req.tag_uid
          THEN /\ last'.raised = None
               /\ last'.status = HTTP_204_NO_CONTENT
               /\ tags' = {t \in tags : t.uid # last'.req.tag_uid}
          ELSE /\ last'.raised = "TagNotFound"
               /\ tags' = tags]_vars

\* the rejections of a route's dependencies (bearer authenticator,
\* get_current_user, RoleChecker), raised before the route body runs
GuardRejections == AuthRejections \cup {"AccountNotVerified", "AttributeError", "InsufficientPermission"}

\* C22: a review lookup that reaches the service and finds nothing fails
\* with ReviewNotFound and status 404: get_review for a uid that is not in
\* the store, and get_all_reviews on an empty store.
C22_ReviewLookupNotFound ==
    [][(/\ last = Idle
        /\ last'.req.op \in {"get_review", "get_all_reviews"}
        /\ last'.raised \notin GuardRejections
        /\ \/ last'.req.op = "get_review" /\ ~\E r \in reviews : r.uid = last'.req.review_uid
           \/ last'.req.op = "get_all_reviews" /\ reviews = {})
       => (/\ last'.raised = "ReviewNotFound"
           /\ last'.status = HTTP_404_NOT_FOUND)]_vars

\* C23: a request that presents a bearer credential is accepted by the
\* authenticator (and then decided by the role gate) or rejected with
\* InvalidToken, AccessTokenRequired or RefreshTokenRequired, never with an
\* unhandled error; a validly signed token whose expiry passes between the
\* arrival of the request and the authenticator's second decode is
\* rejected with InvalidToken.
C23_AuthenticatorNeverCrashes ==
    [][(last = Idle /\ last'.req.op \in BearerRoutes) =>
          /\ last'.raised \in {None, "InvalidToken", "AccessTokenRequired", "RefreshTokenRequired",
                                "AccountNotVerified", "InsufficientPermission"}
          /\ (/\ last'.req.op \in AccessRoutes
              /\ WellSigned(last'.req.token)
              /\ last'.req.token.exp > now
              /\ last'.req.token.exp <= now')
                => (last'.raised = "InvalidToken" /\ last'.status = HTTP_401_UNAUTHORIZED)]_vars

\* C24: with concurrent requests carrying one access token, a request
\* whose revocation check runs after a logout's insert for that token has
\* completed is rejected; a request that begins after the logout has
\* responded is never accepted; and an insert made while the entry is
\* already there changes nothing but that entry's TTL.
C24_RevocationUnderConcurrency ==
    [][\A p \in Procs :
          /\ (/\ procs[p].pc = "decoded"
              /\ procs'[p].pc # "decoded"
              /\ procs[p].token_data.jti \in loggedOut)
                => (procs'[p].pc = "done" /\ procs'[p].result = "InvalidToken")
          /\ procs'[p].after_logout => procs'[p].result # "Accepted"
          /\ (/\ procs[p].pc = "checked"
              /\ procs'[p].pc = "inserted"
              /\ \E e \in blocklist : e.jti = procs[p].token_data.jti)
                => (/\ {e.jti : e \in blocklist'} = {e.jti : e \in blocklist}
                    /\ \A e \in blocklist' :
                          IF e.jti = procs[p].token_data.jti THEN e.expire_at = now + JTI_EXPIRY
                          ELSE e \in blocklist)]_vars

\* C25: with concurrent signups, each checking for the email and then
\* creating the user as separate steps, the user store never holds two
\* users with one email, and of the signups for one email at most one
\* gets its user created.
C25_EmailUniqueUnderConcurrency ==
    /\ \A u \in users, v \in users : u.email = v.email => u = v
    /\ \A p \in Procs, q \in Procs :
          (/\ procs[p].op = "signup" /\ procs[p].pc \in {"created", "done"} /\ procs[p].result # "UserAlreadyExists"
           /\ procs[q].op = "signup" /\ procs[q].pc \in {"created", "done"} /\ procs[q].result # "UserAlreadyExists"
           /\ procs[p].email = procs[q].email)
             => p = q

\* C26: a logout revokes only the access token it was given.  A refresh
\* token that was issued and has not expired is accepted by the refresh
\* endpoint, which mints an access token for the same user, whether or not
\* the access token issued with it has been logged out; an issued,
\* unexpired access token that has not been logged out passes the
\* access-required authenticator; and no refresh token's jti is ever in
\* the revocation store.
C26_LogoutRevokesOnlyAccessToken ==
    [][/\ (/\ last = Idle
           /\ last'.req.op = "refresh"
           /\ last'.req.token \in issued
           /\ last'.req.token.refresh
           /\ last'.req.token.exp > now')
             => (/\ last'.raised = None
                 /\ last'.returned = "JSONResponse"
                 /\ \E minted \in issued' \ issued :
                       ~minted.refresh /\ minted.user = last'.req.token.user)
       /\ (/\ last = Idle
           /\ last'.req.op \in AccessRoutes
           /\ last'.req.token \in issued
           /\ ~last'.req.token.refresh
           /\ last'.req.token.exp > now'
           /\ last'.req.token.jti \notin loggedOut)
             => last'.raised \notin AuthRejections
       /\ \A e \in blocklist', t \in issued' : t.refresh => e.jti # t.jti]_vars

\* the refresh token of a login whose access token was logged out has just
\* been accepted and has minted an access token
C26_Witness ==
    /\ last.req.op = "refresh"
    /\ last.returned = "JSONResponse"
    /\ \E a \in issued :
          /\ ~a.refresh
          /\ a.jti + 1 = last.req.token.jti
          /\ a.jti \in loggedOut
    /\ \E minted \in issued :
          /\ ~minted.refresh
          /\ minted.jti > last.req.token.jti
          /\ minted.user = last.req.token.user

\* the mails in the queue that carry this token
MailsWith(token) == {m \in BagToSet(outbox) : m.token = token}

\* C27: verification tokens and reset tokens are one kind of token.  A
\* token mailed by signup is accepted by password-reset-confirm and resets
\* the password of the user with the token's email; a token mailed by
\* password-reset-request is accepted by verify and sets that user's
\* is_verified to true.
C27_VerifyAndResetTokensSameKind ==
    [][/\ (/\ last = Idle
           /\ last'.req.op = "reset_confirm"
           /\ \E m \in MailsWith(last'.req.token) : m.subject = "verify"
           /\ last'.req.password = last'.req.confirm
           /\ \E u \in users : u.email = last'.req.token.email)
             => (/\ last'.returned = "JSONResponse"
                 /\ last'.status = HTTP_200_OK
                 /\ CredentialAccepts(users', last'.req.token.email, last'.req.password))
       /\ (/\ last = Idle
           /\ last'.req.op = "verify"
           /\ \E m \in MailsWith(last'.req.token) : m.subject = "reset"
           /\ \E u \in users : u.email = last'.req.token.email)
             => (/\ last'.returned = "JSONResponse"
                 /\ last'.status = HTTP_200_OK
                 /\ \A u \in users' : u.email = last'.req.token.email => u.is_verified)]_vars

\* verify has just accepted a token that only password-reset-request mailed
C27_Witness ==
    /\ last.req.op = "verify"
    /\ last.returned = "JSONResponse"
    /\ MailsWith(last.req.token) # {}
    /\ \A m \in MailsWith(last.req.token) : m.subject = "reset"
    /\ \E u \in users : u.email = last.req.token.email /\ u.is_verified

\* C28: authorization follows the user store's current record.  A login
\* with the right password succeeds for a user whose is_verified is false;
\* the access token it issued is rejected by a role-gated route with
\* AccountNotVerified (403) as long as the stored flag is false, and the
\* same token is accepted, when the stored role is allowed, once the stored
\* flag is true; verify sets the flag without issuing any token.
C28_AuthorizationFollowsUserRecord ==
    [][/\ (/\ last = Idle
           /\ last'.req.op = "login"
           /\ \E u \in users : /\ u.email = last'.req.email
                                /\ ~u.is_verified
                                /\ u.password_hash.digest = <<u.password_hash.salt, last'.req.password>>)
             => (/\ last'.returned = "JSONResponse"
                 /\ \E t \in issued' \ issued : ~t.refresh /\ t.user.email = last'.req.email)
       /\ (/\ last = Idle
           /\ last'.req.op = "gated"
           /\ last'.req.token \in issued
           /\ ~last'.req.token.refresh
           /\ last'.req.token.exp > now')
             => \A u \in users :
                   u.email = last'.req.token.user.email =>
                      /\ ~u.is_verified
                            => (last'.raised = "AccountNotVerified" /\ last'.status = HTTP_403_FORBIDDEN)
                      /\ (u.is_verified /\ u.role \in last'.req.allowed_roles)
                            => (last'.raised = None /\ last'.returned = "User")
       /\ (last = Idle /\ last'.req.op = "verify") => issued' = issued]_vars

\* a token issued to a user created by signup (stored unverified) has just
\* been accepted by a role-gated route, the stored flag now being true
C28_Witness ==
    /\ last.req.op = "gated"
    /\ last.returned = "User"
    /\ last.req.token \in issued
    /\ \E u \in users :
          /\ u.email = last.req.token.user.email
          /\ u.role = "user"
          /\ u.is_verified
          /\ u.uid > 0

\* C29: every access or refresh token issued by login or refresh carries
\* the email of a user that is in the user store; no step removes a user or
\* changes a user's email or uid; so a token the authenticator accepts is
\* always resolved to a user record, which the role gate inspects.
C29_TokensNameExistingUsers ==
    [][/\ \A t \in issued' : \E u \in users' : u.email = t.user.email /\ u.uid = t.user.user_uid
       /\ \A u \in users : \E v \in users' : v.email = u.email /\ v.uid = u.uid
       /\ (last = Idle /\ last'.req.op = "gated" /\ last'.raised \notin AuthRejections)
             => (/\ last'.raised \in {None, "AccountNotVerified", "InsufficientPermission"}
                 /\ \E u \in users : u.email = last'.req.token.user.email)]_vars

\* an access token minted by refresh for a user created by signup has
\* passed the authenticator and was resolved to that user
C29_Witness ==
    /\ last.req.op = "gated"
    /\ last.raised \in {None, "AccountNotVerified", "InsufficientPermission"}
    /\ last.req.token \in issued
    /\ ~\E r \in issued : r.refresh /\ r.jti = last.req.token.jti + 1
    /\ \E u \in users : u.email = last.req.token.user.email /\ u.uid = last.req.token.user.user_uid /\ u.uid > 0

\* the kind of bearer token a route requires
RequiresRefresh(op) == op \in RefreshRoutes

\* C30: a password reset leaves existing sessions alone.  A
\* password-reset-confirm step writes nothing to the revocation store and
\* changes nothing of the users but the password_hash of one user; and a
\* token that was issued, is of the kind the route requires, has not
\* expired and has not been logged out is accepted by the authenticator
\* whatever password its user has now.
C30_ResetLeavesSessionsAlone ==
    [][/\ (last = Idle /\ last'.req.op = "reset_confirm")
             => (/\ blocklist' = blocklist
                 /\ issued' = issued
                 /\ Cardinality(users') = Cardinality(users)
                 /\ \A u \in users : \E v \in users' : [v EXCEPT !.password_hash = u.password_hash] = u
                 /\ \A u \in users : u.email # last'.req.token.email => u \in users')
       /\ (/\ last = Idle
           /\ last'.req.op \in BearerRoutes
           /\ last'.req.token \in issued
           /\ last'.req.token.refresh = RequiresRefresh(last'.req.op)
           /\ last'.req.token.exp > now'
           /\ last'.req.token.jti \notin loggedOut)
             => last'.raised \notin AuthRejections]_vars

\* a reset has just replaced the password of a user who holds issued
\* tokens, one of them logged out and one not
C30_Witness ==
    /\ last.req.op = "reset_confirm"
    /\ last.returned = "JSONResponse"
    /\ CredentialAccepts(users, last.req.token.email, last.req.password)
    /\ \E t \in issued : t.user.email = last.req.token.email /\ t.jti \notin loggedOut
    /\ \E t \in issued : t.user.email = last.req.token.email /\ t.jti \in loggedOut
    /\ blocklist # {}

====
